---- MODULE Spec2Model ----
(***************************************************************************)
(* Sale-transaction and payment-settlement engine of the retail POS        *)
(* backend (src/backend/app).  The database is PostgreSQL at READ          *)
(* COMMITTED: a transaction's writes become visible at its commit, SELECT  *)
(* ... FOR UPDATE takes row locks that are held to the end of the          *)
(* transaction, and a plain UPDATE of a locked row waits for the lock.     *)
(*                                                                         *)
(* The services mix "async def" and plain "def" over one synchronous       *)
(* SQLAlchemy session (db/session.py AsyncSessionAdapter).  Every call is  *)
(* modelled by the statements the callee issues, in program order,         *)
(* whether or not the call site awaits it.  Rows carry the columns the     *)
(* properties speak about (stock, invoice_no, payment_status, the items    *)
(* of a sale, the payment record's status, payment_id, signature,          *)
(* attempts and captured_at, a connection's is_active) with the            *)
(* constraints the models declare on those columns.                        *)
(***************************************************************************)
EXTENDS Integers, Sequences, FiniteSets, TLC

\* ---------------------------------------------------------------- bounds
MaxStock == 2
MaxQty == 1
MaxCartLen == 2
NumSuffixes == 2
NumDigits == 2
MaxClock == 2
MaxAdjust == 2
MaxCents == 2
MaxOverride == 1

\* ------------------------------------------------------------- universe
Tenants == {"t1", "t2"}
Products == {"A", "B"}
Reqs == {"r1", "r2"}
None == "none"

\* Product.tenant_id of the catalogue rows (models/product.py)
ProductTenant == [p \in Products |-> "t1"]

\* Sale.store_id / Product.store_id: one store per tenant
StoreOf == [t \in Tenants |-> IF t = "t1" THEN "st1" ELSE "st2"]

Items == [product : Products, quantity : 1..MaxQty]

RECURSIVE SeqsUpTo(_, _)
SeqsUpTo(S, n) ==
    IF n = 0 THEN {<<>>}
    ELSE LET shorter == SeqsUpTo(S, n - 1)
         IN  shorter \cup {Append(s, x) : s \in {q \in shorter : Len(q) = n - 1}, x \in S}

\* a cart: SaleCreate.items, never empty on the paths that persist it
Carts == SeqsUpTo(Items, MaxCartLen) \ {<<>>}

RandomSuffixes == 0..(NumSuffixes - 1)

\* secrets.randbelow(10_000), narrowed to a few values
RandomDigits == 0..(NumDigits - 1)

\* for _ in range(20)
MaxInvoiceAttempts == 20

\* invoice numbers: INV-<year>-<seq>-<suffix> and <dd/mm/yy>-<digits>
InvNo(f, s, x) == [fmt |-> f, seq |-> s, rnd |-> x]
NoInvoice == InvNo("none", 0, 0)

VARIABLES
    stock,        \* committed Product.stock per product
    sales,        \* committed Sale rows
    saleItems,    \* committed SaleItem rows
    req,          \* per request: the sale-creation call in progress
    stock0,       \* the stock each product had before any request ran
    payments,     \* committed RazorpayPayment rows, by razorpay_order_id
    conns,        \* RazorpayConnection.is_active of the store's rows, oldest first
    cb,           \* per callback: the POST /razorpay/callback in progress
    now,          \* the clock datetime.utcnow() reads
    adm,          \* the stock correction an administrator makes
    ord,          \* the outcome of the latest create_order_for_sale call
    cn,           \* per connect_store call: its position
    api           \* the latest request of a signed-in user on a sale, and what it found

vars == <<stock, sales, saleItems, req, stock0, payments, conns, cb, now, adm, ord, cn, api>>
payVars == <<payments, conns, cb, now, adm, ord, cn, api>>

IdleReq ==
    [kind |-> "none", pc |-> "idle", tenant |-> "t1", cart |-> <<>>,
     invoice |-> NoInvoice, locked |-> {}, seen |-> [p \in Products |-> 0],
     local |-> [p \in Products |-> 0], cached |-> {}, idx |-> 0, attempts |-> 0,
     err |-> [type |-> "none", product |-> None, available |-> 0, requested |-> 0]]

Err(t, p, a, q) == [type |-> t, product |-> p, available |-> a, requested |-> q]
NoErr == Err("none", None, 0, 0)

\* ---------------------------------------------- payments: universe
Cbs == {"c1", "c2"}
OrderIds == {"o1", "o2"}
PaymentIds == {"p1", "p2"}
GatewayStatuses == {"captured", "failed"}

\* a column that is NULL (integer columns: attempts, captured_at)
Null == -1

\* HMAC-SHA256 of "<order_id>|<payment_id>" under the store's key secret
Sign(o, p) == [order |-> o, payment |-> p]
NoSignature == Sign(None, None)
Signatures == {Sign(o, p) : o \in OrderIds, p \in PaymentIds} \cup {NoSignature}

\* a RazorpayPayment row (models/razorpay_payment.py)
PaymentRow_Captured(sale, t, st) ==
    [sale |-> sale, tenant |-> t, store |-> st, status |-> "captured",
     payment_id |-> None, signature |-> NoSignature, attempts |-> 0, captured_at |-> Null]
PaymentRow(sale, t, st) ==
    [sale |-> sale, tenant |-> t, store |-> st, status |-> "created",
     payment_id |-> None, signature |-> NoSignature, attempts |-> 0, captured_at |-> Null]

IdleCb ==
    [pc |-> "idle", order |-> None, payment_id |-> None, signature |-> NoSignature,
     loaded |-> PaymentRow(None, None, None), fetched |-> FALSE, err |-> "none"]

\* the connect_store calls in flight
Conners == {"k1", "k2"}

\* no request on a sale was made yet
NoCall == [op |-> "none", tenant |-> None, sale |-> None, owner |-> None, result |-> "none"]

NoOrder ==
    [result |-> "none", sale |-> None, order |-> None, err |-> "none",
     override |-> Null, sent |-> FALSE, amount |-> 0]

IdleAdm == [pc |-> "idle", product |-> None, read |-> 0, adjustment |-> 0, value |-> 0]

InitSales ==
    /\ stock = [p \in Products |-> MaxStock]
    /\ stock0 = stock
    /\ req = [r \in Reqs |-> IdleReq]
    /\ adm = IdleAdm

InitPayments ==
    /\ payments = <<>>
    /\ cb = [c \in Cbs |-> IdleCb]
    /\ now = 0
    /\ ord = NoOrder
    /\ cn = [k \in Conners |-> "idle"]
    /\ api = NoCall

\* an empty database
Init ==
    /\ InitSales
    /\ sales = {}
    /\ saleItems = {}
    /\ conns = <<>>
    /\ InitPayments

\* ------------------------------------------------------------- helpers
Range(s) == {s[i] : i \in DOMAIN s}

RECURSIVE SumQty(_, _)
\* requested_quantity[product_id] += item.quantity over the cart
SumQty(cart, p) ==
    IF cart = <<>> THEN 0
    ELSE (IF Head(cart).product = p THEN Head(cart).quantity ELSE 0) + SumQty(Tail(cart), p)

CartProducts(cart) == {cart[i].product : i \in DOMAIN cart}

\* first-occurrence order of the products of a cart (dict insertion order)
RECURSIVE FirstOccurrences(_, _)
FirstOccurrences(cart, acc) ==
    IF cart = <<>> THEN acc
    ELSE FirstOccurrences(Tail(cart),
            IF Head(cart).product \in Range(acc) THEN acc ELSE Append(acc, Head(cart).product))

\* Sale.total is Numeric(10, 2); the model counts it in thousandths
ExampleTotal == 150000

SaleRow(id, t, inv, via) ==
    [id |-> id, tenant |-> t, store |-> StoreOf[t], invoice_no |-> inv,
     payment_status |-> "pending", via |-> via, total |-> ExampleTotal]

ItemRows(id, cart) ==
    {[sale |-> id, idx |-> i, product |-> cart[i].product, quantity |-> cart[i].quantity] :
        i \in DOMAIN cart}

\* ------------------------------------------------- services/sales.py
\* the invoice number the client sends (the preview it was shown)
ClientInvoices == {InvNo("INV", 1, 0)}

InvSales == {s \in sales : s.invoice_no.fmt = "INV"}

\* ORDER BY invoice_no DESC LIMIT 1 over the INV-<year>-% invoices: the
\* zero-padded sequence decides first, the suffix second
LatestInvoice ==
    CHOOSE s \in InvSales : \A o \in InvSales :
        \/ o.invoice_no.seq < s.invoice_no.seq
        \/ o.invoice_no.seq = s.invoice_no.seq /\ o.invoice_no.rnd <= s.invoice_no.rnd

\* generate_next_invoice_number: latest sequence + 1 (1 when there is none)
\* with a random suffix
generate_next_invoice_number(x) ==
    InvNo("INV", IF InvSales = {} THEN 1 ELSE LatestInvoice.invoice_no.seq + 1, x)

\* the rows SELECT ... WHERE id IN (product_ids) AND tenant_id = :tenant returns
Wanted_AnyTenant(r) == CartProducts(req[r].cart)
Wanted(r) == {p \in CartProducts(req[r].cart) : ProductTenant[p] = req[r].tenant}

Holders_None(p) == {}
Holders(p) == {r \in Reqs : p \in req[r].locked}

\* .with_for_update(): the row is returned once no other transaction holds it
CanLock_NoLock(r, p) == TRUE
CanLock(r, p) == Holders(p) \subseteq {r}

\* product.stock < qty
InsufficientStock_NoCheck(available, qty) == FALSE
InsufficientStock(available, qty) == available < qty

\* r waits for a row lock that o holds
WaitsFor(r, o) ==
    /\ r # o
    /\ req[r].pc = "lock"
    /\ \E p \in Wanted(r) \ req[r].locked : p \in req[o].locked

RECURSIVE Reach(_, _)
Reach(S, n) ==
    IF n = 0 THEN S
    ELSE Reach(S \cup {o \in Reqs : \E r \in S : WaitsFor(r, o)}, n - 1)

\* r is on a cycle of the waits-for graph
Deadlocked_Never(r) == FALSE
Deadlocked(r) ==
    \E o \in Reqs : WaitsFor(r, o) /\ r \in Reach({o2 \in Reqs : WaitsFor(o, o2)}, Cardinality(Reqs))

Fail(r, e) ==
    req' = [req EXCEPT ![r].pc = "failed", ![r].err = e, ![r].locked = {}]

\* committed stock once the open transaction of r is rolled back: the
\* deductions were pending in the session only (no commit before line 218)
RolledBack_EarlyCommit(r) ==
    [p \in Products |-> IF p \in CartProducts(req[r].cart) THEN req[r].local[p] ELSE stock[p]]
RolledBack(r) == stock

\* product.stock -= qty, qty being the quantity aggregated over the cart
Deducted_FirstLineOnly(r, p) ==
    req[r].seen[p] - req[r].cart[CHOOSE i \in DOMAIN req[r].cart : req[r].cart[i].product = p].quantity
Deducted(r, p) == req[r].seen[p] - SumQty(req[r].cart, p)

\* the request arrives: payload of create_sale
SaleBegin(r) ==
    /\ req[r].pc = "idle"
    /\ \E t \in Tenants, c \in Carts \cup {<<>>}, inv \in ClientInvoices :
          req' = [req EXCEPT ![r] = [IdleReq EXCEPT !.kind = "sale", !.pc = "precheck",
                                        !.tenant = t, !.cart = c, !.invoice = inv]]
    /\ UNCHANGED <<stock, sales, saleItems, stock0>>
    /\ UNCHANGED payVars

\* lines 141-150: invoice pre-check, fallback number, empty cart
SalePrecheck(r) ==
    /\ req[r].kind = "sale" /\ req[r].pc = "precheck"
    /\ \E x \in RandomSuffixes :
         LET inv == IF \E s \in sales : s.invoice_no = req[r].invoice
                    THEN generate_next_invoice_number(x) ELSE req[r].invoice
         IN  IF req[r].cart = <<>>
             THEN Fail(r, Err("SaleError", None, 0, 0))
             ELSE req' = [req EXCEPT ![r].invoice = inv, ![r].pc = "lock"]
    /\ UNCHANGED <<stock, sales, saleItems, stock0>>
    /\ UNCHANGED payVars

\* lines 154-160: one row of the FOR UPDATE result is locked and read
SaleLockRow(r) ==
    /\ req[r].kind = "sale" /\ req[r].pc = "lock"
    /\ \E p \in Wanted(r) \ req[r].locked :
          /\ CanLock(r, p)
          /\ req' = [req EXCEPT ![r].locked = @ \cup {p}, ![r].seen[p] = stock[p]]
    /\ UNCHANGED <<stock, sales, saleItems, stock0>>
    /\ UNCHANGED payVars

\* the database aborts a transaction that is on a lock-wait cycle
SaleDeadlock(r) ==
    /\ req[r].kind = "sale" /\ req[r].pc = "lock"
    /\ Deadlocked(r)
    /\ Fail(r, Err("DeadlockDetected", None, 0, 0))
    /\ UNCHANGED <<stock, sales, saleItems, stock0>>
    /\ UNCHANGED payVars

\* lines 162-180: missing products, aggregation, check and deduction
SaleCheck(r) ==
    /\ req[r].kind = "sale" /\ req[r].pc = "lock"
    /\ req[r].locked = Wanted(r)
    /\ LET cart == req[r].cart
           missing == {i \in DOMAIN cart : cart[i].product \notin Wanted(r)}
           order == FirstOccurrences(cart, <<>>)
           short == {i \in DOMAIN order :
                        InsufficientStock(req[r].seen[order[i]], SumQty(cart, order[i]))}
       IN  IF missing # {}
           THEN LET i == CHOOSE i \in missing : \A j \in missing : i <= j
                IN  Fail(r, Err("ProductNotFoundError", cart[i].product, 0, 0))
           ELSE IF short # {}
           THEN LET i == CHOOSE i \in short : \A j \in short : i <= j
                IN  \* session.rollback() releases the locks before the raise
                    req' = [req EXCEPT ![r].pc = "reread", ![r].locked = {},
                              ![r].err = Err("InsufficientStockError", order[i], 0,
                                             SumQty(cart, order[i]))]
           ELSE req' = [req EXCEPT ![r].pc = "flush",
                          ![r].local = [p \in Products |->
                              IF p \in CartProducts(cart) THEN Deducted(r, p) ELSE 0]]
    /\ UNCHANGED <<stock, sales, saleItems, stock0>>
    /\ UNCHANGED payVars

\* line 176: product.stock is read after the rollback expired the row
SaleReread(r) ==
    /\ req[r].kind = "sale" /\ req[r].pc = "reread"
    /\ req' = [req EXCEPT ![r].pc = "failed",
                 ![r].err.available = stock[req[r].err.product]]
    /\ UNCHANGED <<stock, sales, saleItems, stock0>>
    /\ UNCHANGED payVars

\* lines 182-203: the Sale row and the stock updates are flushed
SaleFlush(r) ==
    /\ req[r].kind = "sale" /\ req[r].pc = "flush"
    /\ \E ok \in BOOLEAN :
          IF ok THEN req' = [req EXCEPT ![r].pc = "commit"] /\ UNCHANGED stock
          ELSE Fail(r, Err("DBError", None, 0, 0)) /\ stock' = RolledBack(r)
    /\ UNCHANGED <<sales, saleItems, stock0>>
    /\ UNCHANGED payVars

\* lines 205-218: the items are added and the transaction commits
SaleCommit(r) ==
    /\ req[r].kind = "sale" /\ req[r].pc = "commit"
    /\ \E ok \in BOOLEAN :
          IF ok
          THEN /\ stock' = [p \in Products |->
                              IF p \in CartProducts(req[r].cart) THEN req[r].local[p]
                              ELSE stock[p]]
               /\ sales' = sales \cup {SaleRow(r, req[r].tenant, req[r].invoice, "sale")}
               /\ saleItems' = saleItems \cup ItemRows(r, req[r].cart)
               /\ req' = [req EXCEPT ![r].pc = "done", ![r].locked = {}]
          ELSE /\ Fail(r, Err("DBError", None, 0, 0))
               /\ stock' = RolledBack(r)
               /\ UNCHANGED <<sales, saleItems>>
    /\ UNCHANGED stock0
    /\ UNCHANGED payVars

create_sale(r) ==
    \/ SaleBegin(r)
    \/ SalePrecheck(r)
    \/ SaleLockRow(r)
    \/ SaleDeadlock(r)
    \/ SaleCheck(r)
    \/ SaleReread(r)
    \/ SaleFlush(r)
    \/ SaleCommit(r)

NextSale == \E r \in Reqs : create_sale(r)

SpecSale == Init /\ [][NextSale]_vars

\* carts that hold both products, one unit each, in either order
OverlapCarts ==
    {c \in Carts : Len(c) = 2 /\ c[1].product # c[2].product
                      /\ \A i \in DOMAIN c : c[i].quantity = 1}

\* create_sale is called with such a cart
SaleBeginOverlap(r) ==
    /\ req[r].pc = "idle"
    /\ \E t \in Tenants, c \in OverlapCarts, inv \in ClientInvoices :
          req' = [req EXCEPT ![r] = [IdleReq EXCEPT !.kind = "sale", !.pc = "precheck",
                                        !.tenant = t, !.cart = c, !.invoice = inv]]
    /\ UNCHANGED <<stock, sales, saleItems, stock0>>
    /\ UNCHANGED payVars

create_sale_overlap(r) ==
    \/ SaleBeginOverlap(r)
    \/ SalePrecheck(r)
    \/ SaleLockRow(r)
    \/ SaleDeadlock(r)
    \/ SaleCheck(r)
    \/ SaleReread(r)
    \/ SaleFlush(r)
    \/ SaleCommit(r)

\* a database without sales whose products have any stock
InitRace ==
    /\ stock \in [Products -> 0..MaxStock]
    /\ stock0 = stock
    /\ req = [r \in Reqs |-> IdleReq]
    /\ adm = IdleAdm
    /\ sales = {}
    /\ saleItems = {}
    /\ conns = <<>>
    /\ InitPayments

NextRace == \E r \in Reqs : create_sale_overlap(r)

\* every call that can take a step is served: the database runs the
\* statements it is sent and its deadlock detector ends lock-wait cycles
SpecRace ==
    InitRace /\ [][NextRace]_vars /\ \A r \in Reqs : WF_vars(create_sale_overlap(r))

\* ------------------------------------------ services/sales_service.py
\* crud_sale.get_by_invoice_no: the lookup is filtered by tenant
get_by_invoice_no(inv, t) == {s \in sales : s.invoice_no = inv /\ s.tenant = t}

\* POST /sales/ arrives (api/routes/sales.py: an empty cart is a 400)
SvcBegin(r) ==
    /\ req[r].pc = "idle"
    /\ \E t \in Tenants, c \in Carts :
          req' = [req EXCEPT ![r] = [IdleReq EXCEPT !.kind = "svc", !.pc = "invoice",
                                        !.tenant = t, !.cart = c]]
    /\ UNCHANGED <<stock, sales, saleItems, stock0>>
    /\ UNCHANGED payVars

\* get_next_invoice_number: one pass of the loop
SvcInvoice(r) ==
    /\ req[r].kind = "svc" /\ req[r].pc = "invoice"
    /\ \E d \in RandomDigits :
         LET cand == InvNo("DATE", 0, d) IN
         IF Cardinality(get_by_invoice_no(cand, req[r].tenant)) > 1
         THEN \* scalar_one_or_none on more than one row
              Fail(r, Err("MultipleResultsFound", None, 0, 0))
         ELSE IF get_by_invoice_no(cand, req[r].tenant) = {}
         THEN req' = [req EXCEPT ![r].invoice = cand, ![r].pc = "sale"]
         ELSE IF req[r].attempts + 1 = MaxInvoiceAttempts
         THEN Fail(r, Err("SalesServiceError", None, 0, 0))
         ELSE req' = [req EXCEPT ![r].attempts = @ + 1]
    /\ UNCHANGED <<stock, sales, saleItems, stock0>>
    /\ UNCHANGED payVars

\* create_sale_with_invoice: crud_sale.create inserts the Sale and commits
SvcCreateSale(r) ==
    /\ req[r].kind = "svc" /\ req[r].pc = "sale"
    /\ \E ok \in BOOLEAN :
          IF ok
          THEN /\ sales' = sales \cup {SaleRow(r, req[r].tenant, req[r].invoice, "svc")}
               /\ req' = [req EXCEPT ![r].pc = "items", ![r].idx = 1]
          ELSE /\ Fail(r, Err("SalesServiceError", None, 0, 0))
               /\ UNCHANGED sales
    /\ UNCHANGED <<stock, saleItems, stock0>>
    /\ UNCHANGED payVars

\* create_sale_with_items, loop body: crud_sale_item.create inserts one item
\* and commits; a failure rolls back that insert only
SvcCreateItem(r) ==
    /\ req[r].kind = "svc" /\ req[r].pc = "items"
    /\ req[r].idx <= Len(req[r].cart)
    /\ \E ok \in BOOLEAN :
          IF ok
          THEN /\ saleItems' = saleItems \cup
                     {x \in ItemRows(r, req[r].cart) : x.idx = req[r].idx}
               /\ req' = [req EXCEPT ![r].idx = @ + 1]
          ELSE /\ Fail(r, Err("SalesServiceError", None, 0, 0))
               /\ UNCHANGED saleItems
    /\ UNCHANGED <<stock, sales, stock0>>
    /\ UNCHANGED payVars

\* create_sale_with_items, lines 211-214: nothing is pending at the commit
SvcFinish(r) ==
    /\ req[r].kind = "svc" /\ req[r].pc = "items"
    /\ req[r].idx > Len(req[r].cart)
    /\ req' = [req EXCEPT ![r].pc = "done"]
    /\ UNCHANGED <<stock, sales, saleItems, stock0>>
    /\ UNCHANGED payVars

create_sale_with_items(r) ==
    \/ SvcBegin(r)
    \/ SvcInvoice(r)
    \/ SvcCreateSale(r)
    \/ SvcCreateItem(r)
    \/ SvcFinish(r)

NextSvc == \E r \in Reqs : create_sale_with_items(r)

SpecSvc == Init /\ [][NextSvc]_vars

\* the sales earlier POST /sales/ requests of tenant t1 may have stored
StoredSales ==
    {T \in SUBSET {SaleRow(id, "t1", InvNo("DATE", 0, d), "svc") :
                      id \in {"s0", "s1"}, d \in RandomDigits} :
        \A x, y \in T : x.id = y.id => x = y}

\* a database that holds such sales
InitInvoice ==
    /\ InitSales
    /\ sales \in StoredSales
    /\ saleItems = {}
    /\ conns = <<>>
    /\ InitPayments

\* requests up to the return of get_next_invoice_number
get_next_invoice_number(r) ==
    \/ SvcBegin(r)
    \/ SvcInvoice(r)

NextInvoice == \E r \in Reqs : get_next_invoice_number(r)

SpecInvoice == InitInvoice /\ [][NextInvoice]_vars

\* ---------------------------------------------- services/razorpay.py
\* a database in which one sale was created earlier and its store may have
\* connected its gateway account
InitPay ==
    /\ InitSales
    /\ sales = {SaleRow("s0", "t1", InvNo("DATE", 0, 0), "svc")}
    /\ saleItems = ItemRows("s0", <<[product |-> "A", quantity |-> 1]>>)
    /\ conns \in {<<>>, <<TRUE>>}
    /\ InitPayments

\* get_active_connection: the store has a row with is_active
get_active_connection_Any(t, st) == TRUE
get_active_connection(t, st) ==
    t = "t1" /\ st = StoreOf["t1"] /\ \E i \in DOMAIN conns : conns[i]

\* the ids the gateway hands out for new orders, in order
OrderSeq == <<"o1", "o2">>

\* the amount_override_paise a request may carry (schema: gt = 0), or none
Overrides == {Null} \cup 1..MaxOverride

\* int(): the quotient cut towards zero
TruncDiv(a, b) == IF a >= 0 THEN a \div b ELSE 0 - ((0 - a) \div b)

\* _serialize_amount, line 187: int(total * 100), total in thousandths
_serialize_amount_Units(total) == TruncDiv(total, 1000)
_serialize_amount(total) == TruncDiv(total * 100, 1000)

\* line 205: amount_paise or self._serialize_amount(sale)
calculated_amount(s, amount_paise) ==
    IF amount_paise # Null /\ amount_paise # 0 THEN amount_paise ELSE _serialize_amount(s.total)

OrderFailed(s, amount_paise, sent, amount) ==
    [result |-> "failed", sale |-> s.id, order |-> None, err |-> "RazorpayIntegrationError",
     override |-> amount_paise, sent |-> sent, amount |-> amount]

\* create_order_for_sale: get_client_for_store needs an active connection;
\* the amount is the override or the serialized total, which must be positive;
\* client.order.create may raise; then the payment record is inserted and
\* committed (crud_razorpay_payment.create)
create_order_for_sale(s, amount_paise, gateway_ok) ==
    /\ s \in sales
    /\ LET amount == calculated_amount(s, amount_paise) IN
         IF ~get_active_connection(s.tenant, s.store) \/ amount <= 0
         THEN /\ ord' = OrderFailed(s, amount_paise, FALSE, 0)
              /\ UNCHANGED payments
         ELSE IF ~gateway_ok
         THEN /\ ord' = OrderFailed(s, amount_paise, TRUE, amount)
              /\ UNCHANGED payments
         ELSE /\ Cardinality(DOMAIN payments) < Len(OrderSeq)
              /\ LET o == OrderSeq[CHOOSE i \in DOMAIN OrderSeq :
                                       /\ OrderSeq[i] \notin DOMAIN payments
                                       /\ \A j \in 1..(i - 1) : OrderSeq[j] \in DOMAIN payments]
                 IN
                   /\ payments' = [x \in DOMAIN payments \cup {o} |->
                                     IF x = o THEN PaymentRow(s.id, s.tenant, s.store)
                                     ELSE payments[x]]
                   /\ ord' = [result |-> "done", sale |-> s.id, order |-> o, err |-> "none",
                              override |-> amount_paise, sent |-> TRUE, amount |-> amount]
    /\ UNCHANGED <<stock, sales, saleItems, req, stock0, conns, cb, now, adm, cn>>

\* client.utility.verify_payment_signature
VerifySig_Skipped(o, p, sig) == TRUE
VerifySig(o, p, sig) == sig = Sign(o, p)

\* client.payment.fetch: it raises, or returns the payment with a status and
\* possibly an attempts count
GatewayResponses ==
    {[fetched |-> FALSE, status |-> None, attempts |-> Null]} \cup
    {[fetched |-> TRUE, status |-> st, attempts |-> a] : st \in GatewayStatuses, a \in {Null, 1}}

UpdatedColumns == {"status", "payment_id", "signature", "attempts", "captured_at"}

\* CRUDBase.update on the instance loaded earlier: the UPDATE carries the
\* columns whose new value differs from the loaded one
update(cur, loaded, upd) ==
    [f \in DOMAIN cur |->
        IF f \in UpdatedColumns /\ upd[f] # loaded[f] THEN upd[f] ELSE cur[f]]

CbFail(c, e) == cb' = [cb EXCEPT ![c].pc = "failed", ![c].err = e]

\* the gateway redirects the browser to POST /razorpay/callback
CbBegin(c) ==
    /\ cb[c].pc = "idle"
    /\ \E o \in OrderIds, p \in PaymentIds, sig \in Signatures :
          cb' = [cb EXCEPT ![c] = [IdleCb EXCEPT !.pc = "lookup", !.order = o,
                                      !.payment_id = p, !.signature = sig]]
    /\ UNCHANGED <<stock, sales, saleItems, req, stock0, payments, conns, now, adm, ord, cn, api>>

\* lines 263-264: the record holds another payment id than the callback's
PaymentConflict_Ignored(row, payment_id) == FALSE
PaymentConflict(row, payment_id) ==
    row.payment_id # None /\ row.payment_id # payment_id

\* verify_and_update_payment, lines 256-279
CbLookup(c) ==
    /\ cb[c].pc = "lookup"
    /\ LET o == cb[c].order IN
         IF o \notin DOMAIN payments
         THEN CbFail(c, "RazorpayIntegrationError")
         ELSE IF PaymentConflict(payments[o], cb[c].payment_id)
         THEN CbFail(c, "RazorpayIntegrationError")
         ELSE IF ~get_active_connection(payments[o].tenant, payments[o].store)
         THEN CbFail(c, "RazorpayIntegrationError")
         ELSE IF ~VerifySig(o, cb[c].payment_id, cb[c].signature)
         THEN CbFail(c, "RazorpayValidationError")
         ELSE cb' = [cb EXCEPT ![c].pc = "update", ![c].loaded = payments[o]]
    /\ UNCHANGED <<stock, sales, saleItems, req, stock0, payments, conns, now, adm, ord, cn, api>>

\* verify_and_update_payment, lines 281-303: fetch, build the update, commit
CbUpdate(c) ==
    /\ cb[c].pc = "update"
    /\ \E resp \in GatewayResponses, t \in {now, now + 1} :
         /\ t <= MaxClock
         /\ LET o == cb[c].order
                status == IF resp.fetched THEN resp.status ELSE "captured"
                upd == [status |-> status,
                        payment_id |-> cb[c].payment_id,
                        signature |-> cb[c].signature,
                        attempts |-> resp.attempts,
                        captured_at |-> IF status = "captured" THEN t ELSE Null]
                new == update(payments[o], cb[c].loaded, upd)
                notNull == new.attempts = Null
                duplicate == \E x \in DOMAIN payments \ {o} :
                                payments[x].payment_id = new.payment_id
            IN  IF notNull \/ duplicate
                THEN /\ cb' = [cb EXCEPT ![c].pc = "failed", ![c].err = "SQLAlchemyError",
                                         ![c].fetched = resp.fetched]
                     /\ UNCHANGED payments
                ELSE /\ payments' = [payments EXCEPT ![o] = new]
                     /\ cb' = [cb EXCEPT ![c].pc = "markpaid", ![c].fetched = resp.fetched]
         /\ now' = t
    /\ UNCHANGED <<stock, sales, saleItems, req, stock0, conns, adm, ord, cn, api>>

\* razorpay_callback, lines 218-223: update_payment_status(..., "paid")
CbMarkPaid(c) ==
    /\ cb[c].pc = "markpaid"
    /\ LET sid == payments[cb[c].order].sale IN
         IF \E s \in sales : s.id = sid
         THEN /\ sales' = {IF s.id = sid THEN [s EXCEPT !.payment_status = "paid"] ELSE s :
                             s \in sales}
              /\ cb' = [cb EXCEPT ![c].pc = "done"]
         ELSE CbFail(c, "SaleNotFoundError") /\ UNCHANGED sales
    /\ UNCHANGED <<stock, saleItems, req, stock0, payments, conns, now, adm, ord, cn, api>>

razorpay_callback(c) ==
    \/ CbBegin(c)
    \/ CbLookup(c)
    \/ CbUpdate(c)
    \/ CbMarkPaid(c)

NextPay ==
    \/ \E s \in sales, amount_paise \in Overrides, gateway_ok \in BOOLEAN :
          create_order_for_sale(s, amount_paise, gateway_ok) /\ UNCHANGED api
    \/ \E c \in Cbs : razorpay_callback(c)

SpecPay == InitPay /\ [][NextPay]_vars

\* ------------------------------- services/razorpay.py: connect_store
\* _validate_credentials, then crud deactivate_connections: the store's
\* active rows are set inactive and the session commits
ConnectDeactivate(k) ==
    /\ cn[k] = "idle"
    /\ \E valid \in BOOLEAN :
          IF valid
          THEN /\ conns' = [i \in DOMAIN conns |-> FALSE]
               /\ cn' = [cn EXCEPT ![k] = "insert"]
          ELSE /\ cn' = [cn EXCEPT ![k] = "failed"]
               /\ UNCHANGED conns
    /\ UNCHANGED <<stock, sales, saleItems, req, stock0, payments, cb, now, adm, ord, api>>

\* lines 135-146: the new row is added with is_active and committed
ConnectInsert(k) ==
    /\ cn[k] = "insert"
    /\ \E ok \in BOOLEAN :
          IF ok
          THEN /\ conns' = Append(conns, TRUE)
               /\ cn' = [cn EXCEPT ![k] = "done"]
          ELSE /\ cn' = [cn EXCEPT ![k] = "failed"]
               /\ UNCHANGED conns
    /\ UNCHANGED <<stock, sales, saleItems, req, stock0, payments, cb, now, adm, ord, api>>

connect_store(k) ==
    \/ ConnectDeactivate(k)
    \/ ConnectInsert(k)

\* the managers of one store connect it while orders are created for its sale
NextConn ==
    \/ \E k \in Conners : connect_store(k)
    \/ \E s \in sales, amount_paise \in Overrides, gateway_ok \in BOOLEAN :
          create_order_for_sale(s, amount_paise, gateway_ok) /\ UNCHANGED api

SpecConn == InitPay /\ [][NextConn]_vars

\* the totals a stored sale may have: whole hundredths, zero and below included
Totals == {10 * c : c \in (0 - 1)..MaxCents} \cup {ExampleTotal}

\* a database with one sale of any total
InitOrder ==
    /\ InitSales
    /\ \E total \in Totals :
          sales = {[SaleRow("s0", "t1", InvNo("DATE", 0, 0), "svc") EXCEPT !.total = total]}
    /\ saleItems = ItemRows("s0", <<[product |-> "A", quantity |-> 1]>>)
    /\ conns \in {<<>>, <<TRUE>>}
    /\ InitPayments

SpecOrder == InitOrder /\ [][NextConn]_vars

\* ------------------- services/sales_service.py, api/routes: requests on a sale
\* the signed-in users: their tenant, their store (None for a user without
\* one) and their role
Users ==
    {u \in [tenant : Tenants, store : {"st1", "st2", None}, role : {"manager", "super_admin"}] :
        u.store \in {StoreOf[u.tenant], None}}

\* the ids a request may name; the last one is no sale's id
SaleIds == {"s0", "s1", "s9"}

PaymentStatuses == {"paid", "refunded"}

\* get_sale: crud_sale.get(db, id) without the tenant_id argument
get_sale(sale_id, tenant_id) == {s \in sales : s.id = sale_id}

\* what a request of user u on sale_id found and how it ended
Call(op, u, sale_id, S, result) ==
    [op |-> op, tenant |-> u.tenant, sale |-> sale_id,
     owner |-> IF S = {} THEN None ELSE (CHOOSE s \in S : TRUE).tenant,
     result |-> result]

\* the store check of the razorpay routes
StoreDenied(u, s) == u.role # "super_admin" /\ u.store # None /\ s.store # u.store

\* PATCH /sales/{sale_id}/payment-status: update_payment_status -> update_sale
update_payment_status(u, sale_id, payment_status) ==
    /\ LET S == get_sale(sale_id, u.tenant) IN
         IF S = {}
         THEN /\ api' = Call("update", u, sale_id, S, "SaleNotFoundError")
              /\ UNCHANGED sales
         ELSE /\ sales' = {IF s \in S THEN [s EXCEPT !.payment_status = payment_status] ELSE s :
                             s \in sales}
              /\ api' = Call("update", u, sale_id, S, "done")
    /\ UNCHANGED <<stock, saleItems, req, stock0, payments, conns, cb, now, adm, ord, cn>>

\* DELETE /sales/{sale_id}: the items are removed one commit each, then the
\* sale (its payment records go with it: ondelete CASCADE); a failure on the
\* way leaves what was removed so far
delete_sale(u, sale_id) ==
    /\ LET S == get_sale(sale_id, u.tenant)
           items == {it \in saleItems : it.sale = sale_id}
       IN
         IF S = {}
         THEN /\ api' = Call("delete", u, sale_id, S, "false")
              /\ UNCHANGED <<sales, saleItems, payments>>
         ELSE \E removed \in SUBSET items, ok \in BOOLEAN :
                /\ ok => removed = items
                /\ saleItems' = saleItems \ removed
                /\ sales' = IF ok THEN sales \ S ELSE sales
                /\ payments' = IF ok
                               THEN [o \in {x \in DOMAIN payments : payments[x].sale # sale_id}
                                       |-> payments[o]]
                               ELSE payments
                /\ api' = Call("delete", u, sale_id, S, IF ok THEN "true" ELSE "false")
    /\ UNCHANGED <<stock, req, stock0, conns, cb, now, adm, ord, cn>>

\* POST /razorpay/orders
create_razorpay_order(u, sale_id, amount_paise, gateway_ok) ==
    LET S == get_sale(sale_id, u.tenant) IN
      IF S = {}
      THEN /\ api' = Call("order", u, sale_id, S, "404")
           /\ UNCHANGED <<stock, sales, saleItems, req, stock0, payments, conns, cb, now,
                          adm, ord, cn>>
      ELSE \E s \in S :
             IF StoreDenied(u, s)
             THEN /\ api' = Call("order", u, sale_id, S, "403")
                  /\ UNCHANGED <<stock, sales, saleItems, req, stock0, payments, conns, cb,
                                 now, adm, ord, cn>>
             ELSE /\ create_order_for_sale(s, amount_paise, gateway_ok)
                  /\ api' = Call("order", u, sale_id, S, "called")

\* GET /razorpay/orders/{sale_id}/status
get_razorpay_payment_status(u, sale_id) ==
    /\ LET S == get_sale(sale_id, u.tenant) IN
         api' = Call("status", u, sale_id, S,
                     IF S = {} THEN "404"
                     ELSE IF \E s \in S : StoreDenied(u, s) THEN "403"
                     ELSE "called")
    /\ UNCHANGED <<stock, sales, saleItems, req, stock0, payments, conns, cb, now, adm, ord, cn>>

\* a database with one sale of each tenant
InitTenant ==
    /\ InitSales
    /\ sales = {SaleRow("s0", "t1", InvNo("DATE", 0, 0), "svc"),
                SaleRow("s1", "t2", InvNo("DATE", 0, 0), "svc")}
    /\ saleItems = ItemRows("s0", <<[product |-> "A", quantity |-> 1],
                                    [product |-> "B", quantity |-> 1]>>)
                   \cup ItemRows("s1", <<[product |-> "A", quantity |-> 1]>>)
    /\ conns \in {<<>>, <<TRUE>>}
    /\ InitPayments

NextTenant ==
    \E u \in Users, sale_id \in SaleIds :
       \/ \E payment_status \in PaymentStatuses : update_payment_status(u, sale_id, payment_status)
       \/ delete_sale(u, sale_id)
       \/ \E amount_paise \in Overrides, gateway_ok \in BOOLEAN :
             create_razorpay_order(u, sale_id, amount_paise, gateway_ok)
       \/ get_razorpay_payment_status(u, sale_id)

SpecTenant == InitTenant /\ [][NextTenant]_vars

\* ------------------------------------- crud/crud_sale.py, crud_product.py
Max(a, b) == IF a >= b THEN a ELSE b

\* what the stock operations leave alone
otherVars == <<payments, conns, cb, now, ord, cn, api>>

\* crud_sale.create_with_items is called
CwiBegin(r) ==
    /\ req[r].pc = "idle"
    /\ \E t \in Tenants, c \in Carts \cup {<<>>}, inv \in ClientInvoices :
          req' = [req EXCEPT ![r] = [IdleReq EXCEPT !.kind = "cwi", !.pc = "item",
                                        !.tenant = t, !.cart = c, !.invoice = inv, !.idx = 1]]
    /\ UNCHANGED <<stock, sales, saleItems, stock0, adm>>
    /\ UNCHANGED otherVars

\* lines 81-96: the item is added and the product read; a product the
\* session has loaded before is returned as the session last refreshed it
CwiRead(r) ==
    /\ req[r].kind = "cwi" /\ req[r].pc = "item"
    /\ req[r].idx <= Len(req[r].cart)
    /\ LET p == req[r].cart[req[r].idx].product
           have == IF p \in req[r].cached THEN req[r].seen[p] ELSE stock[p]
           new_stock == have - req[r].cart[req[r].idx].quantity
       IN  IF ProductTenant[p] # req[r].tenant
           THEN req' = [req EXCEPT ![r].idx = @ + 1]
           ELSE IF new_stock < 0
           THEN Fail(r, Err("ValueError", p, have, req[r].cart[req[r].idx].quantity))
           ELSE req' = [req EXCEPT ![r].pc = "write", ![r].local[p] = new_stock,
                          ![r].cached = @ \cup {p}, ![r].seen[p] = have]
    /\ UNCHANGED <<stock, sales, saleItems, stock0, adm>>
    /\ UNCHANGED otherVars

\* lines 97-100: crud_product.update_stock sets the stock and commits the
\* session, which holds the Sale and the items added so far
CwiWrite(r) ==
    /\ req[r].kind = "cwi" /\ req[r].pc = "write"
    /\ LET p == req[r].cart[req[r].idx].product IN
         /\ Holders(p) = {}
         /\ stock' = [stock EXCEPT ![p] = req[r].local[p]]
         /\ sales' = sales \cup {SaleRow(r, req[r].tenant, req[r].invoice, "cwi")}
         /\ saleItems' = saleItems \cup
               {x \in ItemRows(r, req[r].cart) : x.idx <= req[r].idx}
         /\ req' = [req EXCEPT ![r].pc = "item", ![r].idx = @ + 1,
                      ![r].seen[p] = req[r].local[p]]
    /\ UNCHANGED <<stock0, adm>>
    /\ UNCHANGED otherVars

\* lines 102-104: the final commit
CwiCommit(r) ==
    /\ req[r].kind = "cwi" /\ req[r].pc = "item"
    /\ req[r].idx > Len(req[r].cart)
    /\ sales' = sales \cup {SaleRow(r, req[r].tenant, req[r].invoice, "cwi")}
    /\ saleItems' = saleItems \cup ItemRows(r, req[r].cart)
    /\ req' = [req EXCEPT ![r].pc = "done"]
    /\ UNCHANGED <<stock, stock0, adm>>
    /\ UNCHANGED otherVars

create_with_items(r) ==
    \/ CwiBegin(r)
    \/ CwiRead(r)
    \/ CwiWrite(r)
    \/ CwiCommit(r)

\* the values a caller may pass as new_stock: int
NewStocks == (0 - 1)..MaxStock

\* crud_product.update_stock: the stock is set to new_stock and committed
\* (ProductService.update_stock passes new_stock on as it is; of the callers,
\* only PATCH /products/{id}/stock declares new_stock with ge=0)
update_stock(p, new_stock) ==
    /\ adm.pc = "idle"
    /\ Holders(p) = {}
    /\ stock' = [stock EXCEPT ![p] = new_stock]
    /\ adm' = [adm EXCEPT !.pc = "done", !.product = p, !.value = new_stock]
    /\ UNCHANGED <<sales, saleItems, req, stock0>>
    /\ UNCHANGED otherVars

\* new_stock = max(0, product.stock + adjustment)
AdjustedStock(current, adjustment) == Max(0, current + adjustment)

\* crud_product.adjust_stock, lines 407-415: the product is read and the new
\* stock computed
AdjustRead(p, adjustment) ==
    /\ adm.pc = "idle"
    /\ AdjustedStock(stock[p], adjustment) <= MaxStock
    /\ adm' = [adm EXCEPT !.pc = "commit", !.product = p, !.read = stock[p],
                          !.adjustment = adjustment,
                          !.value = AdjustedStock(stock[p], adjustment)]
    /\ UNCHANGED <<stock, sales, saleItems, req, stock0>>
    /\ UNCHANGED otherVars

\* crud_product.adjust_stock, line 416: the commit writes it
AdjustCommit ==
    /\ adm.pc = "commit"
    /\ Holders(adm.product) = {}
    /\ stock' = [stock EXCEPT ![adm.product] = adm.value]
    /\ adm' = [adm EXCEPT !.pc = "done"]
    /\ UNCHANGED <<sales, saleItems, req, stock0>>
    /\ UNCHANGED otherVars

\* checkouts through either path beside one administrator
NextStock ==
    \/ \E r \in Reqs : create_sale(r)
    \/ \E r \in Reqs : create_with_items(r)
    \/ \E p \in Products, v \in NewStocks : update_stock(p, v)
    \/ \E p \in Products, d \in (0 - MaxAdjust)..MaxAdjust : AdjustRead(p, d)
    \/ AdjustCommit

SpecStock == Init /\ [][NextStock]_vars

\* one checkout beside one stock adjustment
NextLock ==
    \/ \E r \in {"r1"} :
          \/ SaleBegin(r)
          \/ SalePrecheck(r)
          \/ SaleLockRow(r)
          \/ SaleCheck(r)
          \/ SaleReread(r)
          \/ SaleFlush(r)
          \/ SaleCommit(r)
    \/ \E p \in Products, d \in (0 - MaxAdjust)..MaxAdjust : AdjustRead(p, d)
    \/ AdjustCommit

SpecLock == Init /\ [][NextLock]_vars

\* ------------------------------------------------------------ properties
RECURSIVE SumItems(_)
SumItems(S) ==
    IF S = {} THEN 0
    ELSE LET x == CHOOSE x \in S : TRUE IN x.quantity + SumItems(S \ {x})

\* quantity of p over the items of the persisted sales that came through via
Sold(p, via) ==
    SumItems({i \in saleItems : i.product = p /\ \E s \in sales : s.id = i.sale /\ s.via = via})

\* C1: for every product, the quantities of the create_sale requests that
\* committed add up to at most the stock the product started with
C1_NoOversell == \A p \in Products : Sold(p, "sale") <= stock0[p]

\* two requests asked together for more of one product than there was; one
\* committed and the other was refused
C1_Witness ==
    \E r \in Reqs, o \in Reqs, p \in Products :
        /\ r # o
        /\ req[r].kind = "sale" /\ req[r].pc = "done"
        /\ req[o].kind = "sale" /\ req[o].err.type = "InsufficientStockError"
        /\ req[o].err.product = p
        /\ SumQty(req[r].cart, p) + SumQty(req[o].cart, p) > stock0[p]
        /\ SumQty(req[o].cart, p) <= stock0[p]

\* C3: the step on which create_sale fails after its deduction (at the flush
\* or at the commit) leaves the committed stock of every cart product at the
\* value the call read, and persists no Sale and no SaleItem of the call
C3_Atomicity ==
    [][\A r \in Reqs :
         (req[r].kind = "sale" /\ req[r].pc \in {"flush", "commit"} /\ req'[r].pc = "failed")
            => /\ \A p \in CartProducts(req[r].cart) : stock'[p] = req[r].seen[p]
               /\ \A s \in sales' : s.id # r
               /\ \A i \in saleItems' : i.sale # r]_vars

\* a call that had deducted stock failed at the flush or the commit
C3_Witness ==
    \E r \in Reqs :
        /\ req[r].kind = "sale" /\ req[r].pc = "failed" /\ req[r].err.type = "DBError"
        /\ \E p \in CartProducts(req[r].cart) : req[r].local[p] < req[r].seen[p]

\* C2: every persisted Sale of POST /sales/ has all the items of its cart,
\* and a failed request has left no Sale row
C2_SaleWithItems ==
    \A r \in Reqs : req[r].kind = "svc" =>
        /\ (\E s \in sales : s.id = r) =>
               {i \in saleItems : i.sale = r} = ItemRows(r, req[r].cart)
        /\ req[r].pc = "failed" => \A s \in sales : s.id # r

\* C4: no two persisted sales share invoice_no
C4_InvoiceUnique ==
    \A s \in sales, o \in sales : s.id # o.id => s.invoice_no # o.invoice_no

\* C10: once POST /sales/ requests have succeeded, the stock of every
\* product is what it started with less the quantities they sold
C10_StockReduced ==
    (\E r \in Reqs : req[r].kind = "svc" /\ req[r].pc = "done") =>
        \A p \in Products :
            stock[p] = stock0[p] - SumItems({i \in saleItems : i.product = p /\ req[i.sale].pc = "done"})

\* the callback c carries a signature that is not the gateway's signature of
\* its order id and payment id
Tampered(c) ==
    cb[c].signature # [order |-> cb[c].order, payment |-> cb[c].payment_id]

\* C5: every step of a callback whose signature does not verify changes no
\* payment record and no sale and ends the call in an error, which is
\* RazorpayValidationError when the order exists, records no other payment id
\* and its store is connected
C5_TamperedChangesNothing ==
    [][\A c \in Cbs :
         (cb[c].pc # "idle" /\ cb'[c] # cb[c] /\ Tampered(c))
            => /\ payments' = payments
               /\ sales' = sales
               /\ cb'[c].pc = "failed"
               /\ (/\ cb[c].order \in DOMAIN payments
                   /\ payments[cb[c].order].payment_id \in {None, cb[c].payment_id}
                   /\ get_active_connection("t1", StoreOf["t1"]))
                      => cb'[c].err = "RazorpayValidationError"]_vars

\* a tampered callback for an order that already has a verified payment
\* recorded was rejected
C5_Witness ==
    \E c \in Cbs :
        /\ cb[c].pc = "failed" /\ cb[c].err = "RazorpayValidationError"
        /\ cb[c].signature # [order |-> cb[c].order, payment |-> cb[c].payment_id]
        /\ cb[c].order \in DOMAIN payments
        /\ payments[cb[c].order].status = "captured"

\* the callback c repeats the triple that the payment record already held
\* when c looked it up
Replay(c) ==
    /\ cb[c].loaded.payment_id = cb[c].payment_id
    /\ cb[c].loaded.signature = cb[c].signature

\* C6: the update step of a callback that repeats an already recorded
\* (order_id, payment_id, signature) does not fail and leaves the payment
\* records and the sales as the first call left them
C6_Idempotent ==
    [][\A c \in Cbs :
         (cb[c].pc = "update" /\ cb'[c] # cb[c] /\ Replay(c))
            => /\ cb'[c].pc # "failed"
               /\ payments' = payments
               /\ sales' = sales]_vars

\* C7: a payment_id, once recorded on a payment record, stays
C7_PaymentIdImmutable ==
    [][\A o \in DOMAIN payments :
         payments[o].payment_id # None
            => o \in DOMAIN payments' /\ payments'[o].payment_id = payments[o].payment_id]_vars

\* C8: when the callback handler has completed, the payment record is
\* captured with the callback's payment id and the owning sale is paid
C8_CapturedAndPaid ==
    \A c \in Cbs : cb[c].pc = "done" =>
        /\ payments[cb[c].order].status = "captured"
        /\ payments[cb[c].order].payment_id = cb[c].payment_id
        /\ \A s \in sales : s.id = payments[cb[c].order].sale => s.payment_status = "paid"

C11_InsufficientStock ==
    [][\A r \in Reqs : req[r].kind = "sale" =>
         /\ (req[r].pc = "lock" /\ req'[r].pc = "flush")
               => \A p \in CartProducts(req[r].cart) : req[r].seen[p] >= SumQty(req[r].cart, p)
         /\ (req[r].pc = "lock" /\ req'[r].pc = "reread")
               => /\ stock' = stock
                  /\ req'[r].locked = {}
                  /\ req'[r].err.type = "InsufficientStockError"
                  /\ req'[r].err.product \in CartProducts(req[r].cart)
                  /\ req[r].seen[req'[r].err.product] < SumQty(req[r].cart, req'[r].err.product)
                  /\ req'[r].err.requested = SumQty(req[r].cart, req'[r].err.product)
         /\ (req[r].pc = "reread" /\ req'[r].pc # "reread")
               => /\ stock' = stock
                  /\ req'[r].pc = "failed"
                  /\ req'[r].err.type = "InsufficientStockError"
                  /\ req'[r].err.available = stock[req[r].err.product]
                  /\ req'[r].err.available < req'[r].err.requested
                  /\ \A s \in sales' : s.id # r
         /\ (req[r].pc = "lock" /\ req'[r].pc = "failed")
               => req'[r].err.type \in {"ProductNotFoundError", "DeadlockDetected"}]_vars

\* a call failed on the second product of its cart after the first had been
\* checked and deducted in the session; the first product's stock is intact
C11_Witness ==
    \E r \in Reqs :
        /\ req[r].kind = "sale" /\ req[r].pc = "failed"
        /\ req[r].err.type = "InsufficientStockError"
        /\ Len(req[r].cart) = 2
        /\ req[r].cart[1].product # req[r].err.product
        /\ stock[req[r].cart[1].product] = stock0[req[r].cart[1].product]

\* the two calls r and o each ask for the same quantity of product p alone,
\* enough stock for one of them and not for both, and both have ended
\* without a database fault
SameProductRace(r, o, p) ==
    /\ r # o
    /\ req[r].kind = "sale" /\ req[o].kind = "sale"
    /\ req[r].tenant = ProductTenant[p] /\ req[o].tenant = ProductTenant[p]
    /\ CartProducts(req[r].cart) = {p} /\ CartProducts(req[o].cart) = {p}
    /\ SumQty(req[r].cart, p) = SumQty(req[o].cart, p)
    /\ SumQty(req[r].cart, p) <= stock0[p]
    /\ stock0[p] < 2 * SumQty(req[r].cart, p)
    /\ req[r].pc \in {"done", "failed"} /\ req[o].pc \in {"done", "failed"}
    /\ req[r].err.type # "DBError" /\ req[o].err.type # "DBError"

C13_ExactDelta ==
    [][\A r \in Reqs :
         (req[r].kind = "sale" /\ req[r].pc = "commit" /\ req'[r].pc = "done")
            => \A p \in Products :
                  stock'[p] = stock[p] - SumItems({i \in ItemRows(r, req[r].cart) : i.product = p})]_vars

\* a sale whose cart names one product on two lines has committed
C13_Witness ==
    \E r \in Reqs :
        /\ req[r].kind = "sale" /\ req[r].pc = "done"
        /\ Len(req[r].cart) = 2
        /\ req[r].cart[1].product = req[r].cart[2].product
        /\ \E p \in Products : p \notin CartProducts(req[r].cart)

\* C14: when POST /sales/ comes to insert its Sale while another sale with
\* the same invoice_no is already committed, the insert does not go through
\* under that number (the request goes back for a fresh one)
C14_RetryOnCollision ==
    [][\A r \in Reqs :
         (/\ req[r].kind = "svc" /\ req[r].pc = "sale"
          /\ \E s \in sales : s.invoice_no = req[r].invoice)
            => \A s \in sales' : s.id = r => s.invoice_no # req[r].invoice]_vars

\* C15: verify_and_update_payment, finding on the payment record a payment id
\* other than the one it was called with, fails with RazorpayIntegrationError
\* and changes no payment record and no sale, whatever the signature
C15_ConflictRejected ==
    [][\A c \in Cbs :
         (/\ cb[c].pc = "lookup" /\ cb'[c] # cb[c]
          /\ cb[c].order \in DOMAIN payments
          /\ payments[cb[c].order].payment_id \notin {None, cb[c].payment_id})
            => /\ cb'[c].pc = "failed"
               /\ cb'[c].err = "RazorpayIntegrationError"
               /\ payments' = payments
               /\ sales' = sales]_vars

\* a callback that carried a second payment id with its valid signature was
\* rejected and the record keeps the first
C15_Witness ==
    \E c \in Cbs :
        /\ cb[c].pc = "failed" /\ cb[c].err = "RazorpayIntegrationError"
        /\ cb[c].order \in DOMAIN payments
        /\ payments[cb[c].order].payment_id \notin {None, cb[c].payment_id}
        /\ cb[c].signature = [order |-> cb[c].order, payment |-> cb[c].payment_id]

\* C16: when the signature has verified and the fetch of the payment details
\* fails, the update still goes through: the payment record gets the payment
\* id, the signature, status captured and a captured_at
C16_FetchFailureTolerated ==
    [][\A c \in Cbs :
         (cb[c].pc = "update" /\ cb'[c] # cb[c] /\ ~cb'[c].fetched)
            => /\ cb'[c].pc # "failed"
               /\ payments'[cb[c].order].payment_id = cb[c].payment_id
               /\ payments'[cb[c].order].signature = cb[c].signature
               /\ payments'[cb[c].order].status = "captured"
               /\ payments'[cb[c].order].captured_at # Null]_vars

C20_OrderFailure ==
    [][ord' # ord =>
          /\ (~\E i \in DOMAIN conns : conns[i]) => ord'.result = "failed"
          /\ ord'.result = "failed" =>
                /\ ord'.err = "RazorpayIntegrationError"
                /\ payments' = payments
                /\ sales' = sales]_vars

\* the gateway refused an order for a connected store: no payment record was
\* added and the sale is as it was
C20_Witness ==
    /\ ord.result = "failed"
    /\ \E i \in DOMAIN conns : conns[i]
    /\ payments = <<>>
    /\ \E s \in sales : s.id = ord.sale /\ s.payment_status = "pending"

\* C18: the store never has more than one connection row with is_active
C18_OneActiveConnection ==
    Cardinality({i \in DOMAIN conns : conns[i]}) <= 1

\* C19: a request on a sale finds the sale only when the sale belongs to the
\* tenant of the user who makes the request
C19_TenantScoped ==
    api.owner # None => api.owner = api.tenant

\* what the specification asks for: round(total * 100), halves to even
RoundedAmount(total) ==
    LET q == total \div 10
        r == total % 10
    IN IF r > 5 \/ (r = 5 /\ q % 2 = 1) THEN q + 1 ELSE q

\* C21: create_order_for_sale sends the override to the gateway when one is
\* given and round(total * 100) otherwise; when no override is given and that
\* amount is not positive the call fails with RazorpayIntegrationError, the
\* gateway is not asked for an order and no payment record is added
C21_OrderAmount ==
    [][ord' # ord =>
          \A s \in sales : s.id = ord'.sale =>
             /\ ord'.sent /\ ord'.override # Null => ord'.amount = ord'.override
             /\ ord'.sent /\ ord'.override = Null => ord'.amount = RoundedAmount(s.total)
             /\ ord'.override = Null /\ RoundedAmount(s.total) <= 0 =>
                   /\ ord'.result = "failed"
                   /\ ord'.err = "RazorpayIntegrationError"
                   /\ ~ord'.sent
                   /\ payments' = payments]_vars

\* an order for the sale of 150.00 reached the gateway without an override
C21_Witness ==
    /\ ord.result = "done"
    /\ ord.override = Null
    /\ ord.amount = 15000
    /\ \E s \in sales : s.id = ord.sale /\ s.total = ExampleTotal

\* C22: a payment record that is captured or failed keeps that status in
\* every later step
C22_StatusForward ==
    [][\A o \in DOMAIN payments :
          payments[o].status \in {"captured", "failed"} =>
             payments'[o].status = payments[o].status]_vars

\* the cart of create_sale call r names a product that is not one of the
\* calling tenant's products
HasMissing(r) ==
    /\ req[r].kind = "sale"
    /\ \E i \in DOMAIN req[r].cart : ProductTenant[req[r].cart[i].product] # req[r].tenant

C24_InvoiceAttempts ==
    \A r \in Reqs : req[r].kind = "svc" =>
       /\ req[r].attempts < MaxInvoiceAttempts
       /\ req[r].pc = "sale" => get_by_invoice_no(req[r].invoice, req[r].tenant) = {}
       /\ req[r].pc = "failed" =>
             /\ req[r].err.type = "SalesServiceError"
             /\ req[r].attempts = MaxInvoiceAttempts - 1

\* a product row locked by create_sale call r stays locked until the call
\* commits or fails, its committed stock changes only at that commit, and no
\* other call locks it
LockHeld(r, p) ==
    /\ p \in req'[r].locked \/ req'[r].pc \in {"done", "failed", "reread"}
    /\ stock'[p] # stock[p] => req'[r].pc = "done"
    /\ \A o \in Reqs \ {r} : p \notin req'[o].locked

\* a transaction outside create_sale reads the stock of p
PlainRead(p) ==
    adm.pc = "idle" /\ adm'.pc = "commit" /\ adm'.product = p

C28_ConnectAtomic ==
    (conns # <<>> /\ \A k \in Conners : cn[k] # "insert") =>
       \E i \in DOMAIN conns : conns[i]

ItemsOf(items, sale_id) == {it \in items : it.sale = sale_id}

\* C30: a delete_sale call that found the sale and returns True has removed
\* the sale and all its items; one that returns False has left the sale and
\* every item it had
C30_DeleteAllOrNothing ==
    [][(api'.op = "delete" /\ api'.owner # None
          /\ (api' # api \/ sales' # sales \/ saleItems' # saleItems)) =>
          /\ api'.result = "true" =>
                /\ \A s \in sales' : s.id # api'.sale
                /\ ItemsOf(saleItems', api'.sale) = {}
          /\ api'.result = "false" =>
                /\ \E s \in sales' : s.id = api'.sale
                /\ ItemsOf(saleItems', api'.sale) = ItemsOf(saleItems, api'.sale)]_vars

====
